---- MODULE Spec2Model ----
(***************************************************************************)
(* Transient response of a capacitor discharging through a planar PCB     *)
(* coil (coil_simulation.py): geometry -> circuit parameters -> state     *)
(* space model -> zero-input response -> peak field and the two series    *)
(* handed to the plotting collaborator.                                    *)
(*                                                                         *)
(* Numbers.  The script computes in binary floating point.  The model     *)
(* computes in exact arithmetic on values                                  *)
(*     (n/d) * 2^b * 5^c * pi^p * sqrt2^r                                  *)
(* with integers n, d, b, c, p, r: np.pi and 2**0.5 are kept as symbols,   *)
(* so no value is rounded.  For the geometries the model draws, the turn   *)
(* count N = (d_out - d_in) / (2 * (w + s)) is either a value floating     *)
(* point holds exactly or far from every integer, so int(N) agrees.        *)
(* k = "nan"/"inf" are the results of numpy's array division by zero;     *)
(* k = "unset" marks a name that is not bound yet.                        *)
(***************************************************************************)
EXTENDS Integers, Sequences, FiniteSets, TLC

VARIABLES
    inp,                \* the "Variables"/"Coil Dimensions" block, lines 38-51
    n_parallel, N, lengthTrace,
    L_coil, L_coil_single, R_coil, R_coil_single,
    a_inv_sum, i,       \* the turn sum and its loop index
    printed,            \* console output so far: sequence of [label, value]
    A, B, C, D,         \* state-space matrices
    timeReturned3, systemOutput3,
    max_magnetic_field,
    plots,              \* series handed to plottingFunction so far
    pc, err             \* position in the script, exception raised (or "none")

vars == <<inp, n_parallel, N, lengthTrace, L_coil, L_coil_single, R_coil,
          R_coil_single, a_inv_sum, i, printed, A, B, C, D, timeReturned3,
          systemOutput3, max_magnetic_field, plots, pc, err>>

----------------------------------------------------------------------------
(* Arithmetic *)

Abs(x) == IF x < 0 THEN -x ELSE x

Min(a, b) == IF a < b THEN a ELSE b

RECURSIVE Gcd(_, _)
Gcd(a, b) == IF b = 0 THEN a ELSE Gcd(b, a % b)

\* base^m for m >= 0, and 1 for m < 0
RECURSIVE Pow(_, _)
Pow(base, m) == IF m <= 0 THEN 1 ELSE base * Pow(base, m - 1)

\* the value (n/d) * 2^b * 5^c * pi^p * sqrt2^r
Num(n, d, b, c, p, r) ==
    [k |-> "num", n |-> n, d |-> d, b |-> b, c |-> c, p |-> p, r |-> r]

Zero == Num(0, 1, 0, 0, 0, 0)

Unset == [Zero EXCEPT !.k = "unset"]

NaN == [Zero EXCEPT !.k = "nan"]

Inf(sgn) == [Zero EXCEPT !.k = "inf", !.n = sgn]

\* Every value has one representation: n/d in lowest terms, d > 0, and
\* neither n nor d divisible by 2 or 5 (carried by 2^b and 5^c).
RECURSIVE Canon(_, _, _, _, _, _)
Canon(n, d, b, c, p, r) ==
    IF n = 0 THEN Zero
    ELSE IF d < 0 THEN Canon(-n, -d, b, c, p, r)
    ELSE IF n % 2 = 0 THEN Canon(n \div 2, d, b + 1, c, p, r)
    ELSE IF d % 2 = 0 THEN Canon(n, d \div 2, b - 1, c, p, r)
    ELSE IF n % 5 = 0 THEN Canon(n \div 5, d, b, c + 1, p, r)
    ELSE IF d % 5 = 0 THEN Canon(n, d \div 5, b, c - 1, p, r)
    ELSE LET g == Gcd(Abs(n), d)
         IN Num(n \div g, d \div g, b, c, p, r)

\* the rational n/d (d # 0)
Q(n, d) == Canon(n, d, 0, 0, 0, 0)

IntNum(n) == Q(n, 1)

\* the decimal literal n * 10^e
Dec(n, e) == Canon(n, 1, e, e, 0, 0)

Pi == Num(1, 1, 0, 0, 1, 0)

Sqrt2 == Num(1, 1, 0, 0, 0, 1)

IsNum(x) == x.k = "num"

IsZero(x) == x.k = "num" /\ x.n = 0

Sign(x) == IF x.n > 0 THEN 1 ELSE IF x.n < 0 THEN -1 ELSE 0

Neg(x) == [x EXCEPT !.n = -x.n]

AbsVal(x) == [x EXCEPT !.n = Abs(x.n)]

Mul(x, y) ==
    IF x.n = 0 \/ y.n = 0 THEN Zero
    ELSE LET g1 == Gcd(Abs(x.n), y.d)
             g2 == Gcd(Abs(y.n), x.d)
         IN Num((x.n \div g1) * (y.n \div g2), (x.d \div g2) * (y.d \div g1),
                x.b + y.b, x.c + y.c, x.p + y.p, x.r + y.r)

\* 1/x for x # 0
Inv(x) == Num(Sign(x) * x.d, Abs(x.n), -x.b, -x.c, -x.p, -x.r)

\* x / y for y # 0 (Python raises ZeroDivisionError on y = 0: see the guards)
Div(x, y) == Mul(x, Inv(y))

\* x + y; the operands carry the same symbolic factor unless one is zero
Add(x, y) ==
    IF x.n = 0 THEN y
    ELSE IF y.n = 0 THEN x
    ELSE LET b == Min(x.b, y.b)
             c == Min(x.c, y.c)
             xn == x.n * Pow(2, x.b - b) * Pow(5, x.c - c)
             yn == y.n * Pow(2, y.b - b) * Pow(5, y.c - c)
             g == Gcd(x.d, y.d)
         IN Canon(xn * (y.d \div g) + yn * (x.d \div g), (x.d \div g) * y.d,
                  b, c, x.p, x.r)

Sub(x, y) == Add(x, Neg(y))

Less(x, y) == Sign(Sub(y, x)) > 0

Leq(x, y) == Sign(Sub(y, x)) >= 0

\* numpy: ndarray element / Python float; a zero divisor yields nan or inf
ArrayDiv(x, y) ==
    IF y.n = 0 THEN (IF x.n = 0 THEN NaN ELSE Inf(Sign(x)))
    ELSE Div(x, y)

\* mathematical floor of a value without symbolic factor
Floor(x) ==
    (x.n * Pow(2, x.b) * Pow(5, x.c)) \div (x.d * Pow(2, -x.b) * Pow(5, -x.c))

\* slip: int() taken for floor
PyIntFloors(x) == Floor(x)

\* Python int(): truncation toward zero, of a value without symbolic factor
PyInt(x) == IF x.n >= 0 THEN Floor(x) ELSE -Floor(Neg(x))

----------------------------------------------------------------------------
(* Constants, lines 31-35 *)

p_copper == Mul(Dec(17, -1), Dec(1, -5))

u_0 == Mul(Mul(IntNum(4), Pi), Dec(1, -7))

K1 == Dec(234, -2)

K2 == Dec(275, -2)

----------------------------------------------------------------------------
(* Geometry/Parameter Deriver, lines 46-65, as functions of the inputs *)

NParallel(in) == Div(Mul(in.numb_pcb, in.n_series), in.n_series)

\* slip: the factor 2 of the pitch dropped
TurnCountNoFactorTwo(in) == Div(Sub(in.d_out, in.d_in), Add(in.w, in.s))

TurnCount(in) ==
    Div(Sub(in.d_out, in.d_in), Mul(IntNum(2), Add(in.w, in.s)))

\* slip: N loops instead of N + 1
TraceLengthNLoops(in) ==
    Mul(Div(Mul(IntNum(4), Add(in.d_out, in.d_in)), IntNum(2)), TurnCount(in))

TraceLength(in) ==
    Mul(Div(Mul(IntNum(4), Add(in.d_out, in.d_in)), IntNum(2)),
        Add(TurnCount(in), IntNum(1)))

\* N**2
Square(x) == Mul(x, x)

\* slip: series windings counted once instead of squared
LCoilLinearInSeries(in) ==
    Mul(Div(Div(Div(Mul(Mul(Mul(K1, u_0), Square(TurnCount(in))),
                        Add(in.d_out, in.d_in)),
                    IntNum(2)),
                Add(IntNum(1),
                    Div(Mul(K2, Sub(in.d_out, in.d_in)),
                        Add(in.d_out, in.d_in)))),
            IntNum(1000)),
        in.n_series)

LCoil(in) ==
    Mul(Div(Div(Div(Mul(Mul(Mul(K1, u_0), Square(TurnCount(in))),
                        Add(in.d_out, in.d_in)),
                    IntNum(2)),
                Add(IntNum(1),
                    Div(Mul(K2, Sub(in.d_out, in.d_in)),
                        Add(in.d_out, in.d_in)))),
            IntNum(1000)),
        Square(in.n_series))

LCoilSingle(in) ==
    Div(Div(Div(Mul(Mul(Mul(K1, u_0), Square(TurnCount(in))),
                    Add(in.d_out, in.d_in)),
                IntNum(2)),
            Add(IntNum(1),
                Div(Mul(K2, Sub(in.d_out, in.d_in)),
                    Add(in.d_out, in.d_in)))),
        IntNum(1000))

RCoil(in) ==
    Add(Div(Mul(Div(Mul(p_copper, TraceLength(in)), Mul(in.w, in.t)),
                in.n_series),
            NParallel(in)),
        in.R_mosfet)

RCoilSingle(in) == Div(Mul(p_copper, TraceLength(in)), Mul(in.w, in.t))

\* the divisions of lines 47-65 that raise ZeroDivisionError
DeriveRaises(in) ==
    \/ IsZero(in.n_series)                               \* line 47
    \/ IsZero(Mul(IntNum(2), Add(in.w, in.s)))           \* line 54
    \/ IsZero(Add(in.d_out, in.d_in))                    \* line 60
    \/ IsZero(Add(IntNum(1),
                  Div(Mul(K2, Sub(in.d_out, in.d_in)),
                      Add(in.d_out, in.d_in))))          \* line 60
    \/ IsZero(Mul(in.w, in.t))                           \* line 64
    \/ IsZero(NParallel(in))                             \* line 64

----------------------------------------------------------------------------
(* Turn sum, lines 67-70, and the coupling coefficient, lines 84 and 110 *)

\* slip: range(int(N) - 1)
LoopBoundOffByOne(x) == PyInt(x) - 1

\* range(int(N)): the loop runs for i = 0 .. int(N) - 1
LoopBound(x) == PyInt(x)

\* 100 - 2 * (w + s) * i
TermDenominator(in, j) ==
    Sub(IntNum(100), Mul(Mul(IntNum(2), Add(in.w, in.s)), IntNum(j)))

\* 1000 * n_series / (100 - 2 * (w + s) * i)
Term(in, j) == Div(Mul(IntNum(1000), in.n_series), TermDenominator(in, j))

\* 8 * 2**0.5 * u_0 / (4 * np.pi) * a_inv_sum
Kappa(a) ==
    Mul(Div(Mul(Mul(IntNum(8), Sqrt2), u_0), Mul(IntNum(4), Pi)), a)

----------------------------------------------------------------------------
(* Circuit Model Builder, lines 81-85 *)

\* slip: the sign of -1/L lost
StateMatrixSignSlip(R, L, Cap) ==
    << <<Zero, Div(IntNum(1), Cap)>>,
       <<Div(IntNum(1), L), Div(Neg(R), L)>> >>

StateMatrix(R, L, Cap) ==
    << <<Zero, Div(IntNum(1), Cap)>>,
       <<Div(IntNum(-1), L), Div(Neg(R), L)>> >>

InputMatrix == << <<Zero>>, <<Zero>> >>

OutputMatrix(a) == << <<Zero, Kappa(a)>> >>

FeedthroughMatrix == << <<Zero>> >>

\* the divisions of line 82 that raise ZeroDivisionError
BuildRaises(L, Cap) == IsZero(Cap) \/ IsZero(L)

----------------------------------------------------------------------------
(* Transient Solver, lines 90-95 *)

\* np.linspace(start, stop, n)
Linspace(start, stop, n) ==
    [j \in 1..n |->
        IF n = 1 THEN start
        ELSE Add(start, Mul(IntNum(j - 1),
                            Div(Sub(stop, start), IntNum(n - 1))))]

initialState == <<IntNum(48), Zero>>

\* y = C x + D u with u = 0, for one state sample x
OutputOf(Cm, x) == Add(Mul(Cm[1][1], x[1]), Mul(Cm[1][2], x[2]))

----------------------------------------------------------------------------
(* Post-Processor, lines 97-114 *)

\* abs(systemOutput3), elementwise
AbsSeries(ys) == [j \in 1..Len(ys) |-> AbsVal(ys[j])]

\* Python max() over a non-empty sequence: left to right, first maximum kept
RECURSIVE PyMax(_)
PyMax(ys) ==
    IF Len(ys) = 1 THEN ys[1]
    ELSE LET m == PyMax(SubSeq(ys, 1, Len(ys) - 1))
         IN IF Less(m, ys[Len(ys)]) THEN ys[Len(ys)] ELSE m

\* slip: abs() left out
PeakGaussNoAbs(ys) == Mul(PyMax(ys), IntNum(10000))

\* max(abs(systemOutput3)) * 10000
PeakGauss(ys) == Mul(PyMax(AbsSeries(ys)), IntNum(10000))

\* timeReturned3 * 1000
TimeMs(ts) == [j \in 1..Len(ts) |-> Mul(ts[j], IntNum(1000))]

\* -systemOutput3
FieldSeries(ys) == [j \in 1..Len(ys) |-> Neg(ys[j])]

\* slip: the sign flip of the field series left out of the current series
CurrentSeriesNotNegated(ys, a) ==
    [j \in 1..Len(ys) |-> ArrayDiv(ys[j], Kappa(a))]

\* -systemOutput3 / (8 * 2**0.5 * u_0 / (4 * np.pi) * a_inv_sum)
CurrentSeries(ys, a) ==
    [j \in 1..Len(ys) |-> ArrayDiv(Neg(ys[j]), Kappa(a))]

----------------------------------------------------------------------------
(* Bounds of the model *)

\* samples of the time grid (100000 in the script, line 91)
NumSamples == 3

\* the solver's current samples are the integers -MaxAmp .. MaxAmp (amperes)
MaxAmp == 1

\* longest synthetic raw output series handed to the peak extraction
MaxLen == 3

\* n_series values compared with the run's own: 1 .. MaxSeries
MaxSeries == 3

----------------------------------------------------------------------------
(* Inputs *)

Quarter(n) == Q(n, 4)

Geometry(dout, din, w4, s4) ==
    [d_out |-> IntNum(dout), d_in |-> IntNum(din),
     w |-> Quarter(w4), s |-> Quarter(s4)]

Electrical(ns, pcb) ==
    [t |-> Mul(IntNum(2), Dec(348, -4)), n_series |-> IntNum(ns),
     C_coil |-> Dec(10, -3), R_mosfet |-> Dec(1, -2), numb_pcb |-> IntNum(pcb)]

Join(g, e) ==
    [t |-> e.t, w |-> g.w, s |-> g.s, n_series |-> e.n_series,
     C_coil |-> e.C_coil, R_mosfet |-> e.R_mosfet, numb_pcb |-> e.numb_pcb,
     d_out |-> g.d_out, d_in |-> g.d_in]

\* the script's own values, lines 38-51
Reference == Join(Geometry(100, 20, 7, 1), Electrical(2, 10))

\* geometries of few turns; the script validates nothing, so the set holds
\* geometries outside the stated invariants as well
PipelineGeometries ==
    { Geometry(100, 20, 32, 8),    \* N = 4
      Geometry(100, 20, 40, 10),   \* N = 3.2
      Geometry(70, 20, 32, 8),     \* N = 2.5
      Geometry(60, 20, 32, 8),     \* N = 2
      Geometry(40, 20, 32, 8),     \* N = 1
      Geometry(21, 20, 32, 8),     \* N = 0.05
      Geometry(20, 20, 32, 8),     \* N = 0
      Geometry(20, 21, 32, 8),     \* N = -0.05
      Geometry(20, 45, 32, 8),     \* N = -1.25
      Geometry(200, 20, 32, 8),    \* N = 9, 100 - 20 i = 0 at i = 5
      Geometry(200, 20, 50, 10),   \* N = 6, 100 - 30 i < 0 from i = 4
      Geometry(420, 20, 320, 80),  \* N = 2, denominators 100 and -100
      Geometry(100, 20, 0, 40) }   \* w = 0

PipelineInputs ==
    { Join(g, Electrical(ns, pcb)) :
        g \in PipelineGeometries, ns \in {1, 2}, pcb \in {4, 10} }

----------------------------------------------------------------------------
(* The script, top to bottom *)

InitWith(in, at) ==
    /\ inp = in
    /\ n_parallel = Unset /\ N = Unset /\ lengthTrace = Unset
    /\ L_coil = Unset /\ L_coil_single = Unset
    /\ R_coil = Unset /\ R_coil_single = Unset
    /\ a_inv_sum = Unset /\ i = 0
    /\ printed = <<>>
    /\ A = <<>> /\ B = <<>> /\ C = <<>> /\ D = <<>>
    /\ timeReturned3 = <<>> /\ systemOutput3 = <<>>
    /\ max_magnetic_field = Unset
    /\ plots = <<>>
    /\ pc = at /\ err = "none"

Init == \E in \in PipelineInputs : InitWith(in, "derive")

Raise(e) == pc' = "failed" /\ err' = e

\* lines 46-68
Derive ==
    /\ pc = "derive"
    /\ IF DeriveRaises(inp)
       THEN /\ Raise("ZeroDivisionError")
            /\ UNCHANGED <<n_parallel, N, lengthTrace, L_coil, L_coil_single,
                           R_coil, R_coil_single, a_inv_sum>>
       ELSE /\ n_parallel' = NParallel(inp)
            /\ N' = TurnCount(inp)
            /\ lengthTrace' = TraceLength(inp)
            /\ L_coil' = LCoil(inp)
            /\ L_coil_single' = LCoilSingle(inp)
            /\ R_coil' = RCoil(inp)
            /\ R_coil_single' = RCoilSingle(inp)
            /\ a_inv_sum' = Zero
            /\ pc' = "sum" /\ err' = err
    /\ UNCHANGED <<inp, i, printed, A, B, C, D, timeReturned3, systemOutput3,
                   max_magnetic_field, plots>>

\* lines 69-70, one iteration; i counts the iterations begun
TurnSumStep ==
    /\ pc = "sum"
    /\ i < LoopBound(N)
    /\ IF IsZero(TermDenominator(inp, i))
       THEN Raise("ZeroDivisionError") /\ UNCHANGED <<a_inv_sum, i>>
       ELSE /\ a_inv_sum' = Add(a_inv_sum, Term(inp, i))
            /\ i' = i + 1
            /\ UNCHANGED <<pc, err>>
    /\ UNCHANGED <<inp, n_parallel, N, lengthTrace, L_coil, L_coil_single,
                   R_coil, R_coil_single, printed, A, B, C, D, timeReturned3,
                   systemOutput3, max_magnetic_field, plots>>

Line(label, value) == [label |-> label, value |-> value]

\* lines 71-79
Diagnostics ==
    << Line("a_inv_sum", a_inv_sum),
       Line("Inductance", Mul(L_coil, IntNum(1000000))),
       Line("Capacitance", Mul(inp.C_coil, IntNum(1000000))),
       Line("Resistance", R_coil),
       Line("Resistance (single)", R_coil_single),
       Line("Number of Turns (1 coil)", IntNum(PyInt(N))),
       Line("Trace Length (1 coil)", lengthTrace) >>

PrintDiagnostics ==
    /\ pc = "sum"
    /\ ~(i < LoopBound(N))
    /\ printed' = printed \o Diagnostics
    /\ pc' = "build"
    /\ UNCHANGED <<inp, n_parallel, N, lengthTrace, L_coil, L_coil_single,
                   R_coil, R_coil_single, a_inv_sum, i, A, B, C, D,
                   timeReturned3, systemOutput3, max_magnetic_field, plots,
                   err>>

\* lines 81-88
BuildModel ==
    /\ pc = "build"
    /\ IF BuildRaises(L_coil, inp.C_coil)
       THEN Raise("ZeroDivisionError") /\ UNCHANGED <<A, B, C, D>>
       ELSE /\ A' = StateMatrix(R_coil, L_coil, inp.C_coil)
            /\ B' = InputMatrix
            /\ C' = OutputMatrix(a_inv_sum)
            /\ D' = FeedthroughMatrix
            /\ pc' = "solve" /\ err' = err
    /\ UNCHANGED <<inp, n_parallel, N, lengthTrace, L_coil, L_coil_single,
                   R_coil, R_coil_single, a_inv_sum, i, printed,
                   timeReturned3, systemOutput3, max_magnetic_field, plots>>

Amps == { IntNum(a) : a \in -MaxAmp..MaxAmp }

Volts == { Zero, IntNum(48) }

\* lines 90-95.  ct.initial_response evaluates x(t) = exp(A t) x0 and
\* y = C x on the time grid; exp(A t) is not computed here: the state samples
\* after t = 0 are any values of the sample sets.
Solve ==
    /\ pc = "solve"
    /\ \E x \in [1..NumSamples -> Volts \X Amps] :
          /\ x[1] = initialState
          /\ timeReturned3' = Linspace(Zero, Dec(1, -2), NumSamples)
          /\ systemOutput3' = [j \in 1..NumSamples |-> OutputOf(C, x[j])]
    /\ pc' = "peak"
    /\ UNCHANGED <<inp, n_parallel, N, lengthTrace, L_coil, L_coil_single,
                   R_coil, R_coil_single, a_inv_sum, i, printed, A, B, C, D,
                   max_magnetic_field, plots, err>>

\* lines 97-99
PeakField ==
    /\ pc = "peak"
    /\ max_magnetic_field' = PeakGauss(systemOutput3)
    /\ printed' = Append(printed,
                         Line("Peak Magnetic Field", PeakGauss(systemOutput3)))
    /\ pc' = "plot1"
    /\ UNCHANGED <<inp, n_parallel, N, lengthTrace, L_coil, L_coil_single,
                   R_coil, R_coil_single, a_inv_sum, i, A, B, C, D,
                   timeReturned3, systemOutput3, plots, err>>

Plot(xs, ys, file) == [x |-> xs, y |-> ys, file |-> file]

\* lines 101-107; plottingFunction is the external collaborator: it returns
\* or raises
PlotField ==
    /\ pc = "plot1"
    /\ \E raises \in BOOLEAN :
          IF raises
          THEN Raise("PlotError") /\ UNCHANGED plots
          ELSE /\ plots' = Append(plots,
                                  Plot(TimeMs(timeReturned3),
                                       FieldSeries(systemOutput3),
                                       "outputInitial.png"))
               /\ pc' = "plot2" /\ err' = err
    /\ UNCHANGED <<inp, n_parallel, N, lengthTrace, L_coil, L_coil_single,
                   R_coil, R_coil_single, a_inv_sum, i, printed, A, B, C, D,
                   timeReturned3, systemOutput3, max_magnetic_field>>

\* lines 109-114
PlotCurrent ==
    /\ pc = "plot2"
    /\ \E raises \in BOOLEAN :
          IF raises
          THEN Raise("PlotError") /\ UNCHANGED plots
          ELSE /\ plots' = Append(plots,
                                  Plot(TimeMs(timeReturned3),
                                       CurrentSeries(systemOutput3, a_inv_sum),
                                       "outputNormalized.png"))
               /\ pc' = "done" /\ err' = err
    /\ UNCHANGED <<inp, n_parallel, N, lengthTrace, L_coil, L_coil_single,
                   R_coil, R_coil_single, a_inv_sum, i, printed, A, B, C, D,
                   timeReturned3, systemOutput3, max_magnetic_field>>

Next ==
    \/ Derive
    \/ TurnSumStep
    \/ PrintDiagnostics
    \/ BuildModel
    \/ Solve
    \/ PeakField
    \/ PlotField
    \/ PlotCurrent

Spec == Init /\ [][Next]_vars

----------------------------------------------------------------------------
(* The Parameter Deriver alone, on the script's own geometry and others *)

DeriverInputs ==
    { Join(Geometry(dout, din, ws[1], ws[2]), Electrical(ns, pcb)) :
        dout \in {20, 60, 100, 200}, din \in {20, 45},
        ws \in {<<7, 1>>, <<32, 8>>, <<0, 0>>}, ns \in {1, 2},
        pcb \in {4, 10} }

InitDeriver == \E in \in DeriverInputs : InitWith(in, "derive")

NextDeriver == Derive

SpecDeriver == InitDeriver /\ [][NextDeriver]_vars

----------------------------------------------------------------------------
(* The Circuit Model Builder alone, on synthetic R, L, C > 0 *)

\* R, L, C are the ratios a/b with a, b in 1..MaxRatio
MaxRatio == 3

PositiveValues == { Q(a, b) : a \in 1..MaxRatio, b \in 1..MaxRatio }

InitBuilder ==
    \E R \in PositiveValues, L \in PositiveValues, Cap \in PositiveValues :
        /\ inp = [Reference EXCEPT !.C_coil = Cap]
        /\ R_coil = R /\ L_coil = L
        /\ a_inv_sum = IntNum(1) /\ i = 0
        /\ n_parallel = Unset /\ N = Unset /\ lengthTrace = Unset
        /\ L_coil_single = Unset /\ R_coil_single = Unset
        /\ printed = <<>>
        /\ A = <<>> /\ B = <<>> /\ C = <<>> /\ D = <<>>
        /\ timeReturned3 = <<>> /\ systemOutput3 = <<>>
        /\ max_magnetic_field = Unset
        /\ plots = <<>>
        /\ pc = "build" /\ err = "none"

NextBuilder == BuildModel

SpecBuilder == InitBuilder /\ [][NextBuilder]_vars

----------------------------------------------------------------------------
(* The peak extraction alone, on synthetic raw output series *)

\* samples in tesla: the halves between -MaxAmp and MaxAmp
SyntheticSamples == { Q(a, 2) : a \in (-2 * MaxAmp)..(2 * MaxAmp) }

SyntheticSeries ==
    UNION { [1..len -> SyntheticSamples] : len \in 1..MaxLen }

InitPeak ==
    \E ys \in SyntheticSeries :
        /\ inp = Reference
        /\ systemOutput3 = ys
        /\ timeReturned3 = Linspace(Zero, Dec(1, -2), Len(ys))
        /\ n_parallel = Unset /\ N = Unset /\ lengthTrace = Unset
        /\ L_coil = Unset /\ L_coil_single = Unset
        /\ R_coil = Unset /\ R_coil_single = Unset
        /\ a_inv_sum = Unset /\ i = 0
        /\ printed = <<>>
        /\ A = <<>> /\ B = <<>> /\ C = <<>> /\ D = <<>>
        /\ max_magnetic_field = Unset
        /\ plots = <<>>
        /\ pc = "peak" /\ err = "none"

NextPeak == PeakField

SpecPeak == InitPeak /\ [][NextPeak]_vars

----------------------------------------------------------------------------
(* Properties *)

\* d_out = 100 mm, d_in = 20 mm, w = 1.75 mm, s = 0.25 mm
ReferenceGeometry(in) ==
    /\ in.d_out = IntNum(100) /\ in.d_in = IntNum(20)
    /\ in.w = Dec(175, -2) /\ in.s = Dec(25, -2)

\* the stated invariants of PhysicalInputs: all positive, d_out > d_in
Valid(in) ==
    /\ \A f \in DOMAIN in : IsNum(in[f]) /\ Sign(in[f]) > 0
    /\ Less(in.d_in, in.d_out)

\* lines 46-65 have run without raising
Derived == pc # "derive" /\ IsNum(N)

\* C1 as stated: for the reference geometry the derived turn count N is 40.
C1_TurnCountIs40 ==
    (Derived /\ ReferenceGeometry(inp)) => N = IntNum(40)

\* C1 amended: for the reference geometry the derived turn count
\* N = (d_out - d_in) / (2 * (w + s)) = 80 / 4 is 20.
C1_TurnCountIs20 ==
    (Derived /\ ReferenceGeometry(inp)) =>
        /\ N = IntNum(20)
        /\ Mul(N, Mul(IntNum(2), Add(inp.w, inp.s))) = Sub(inp.d_out, inp.d_in)

\* C1 witness: the derivation has run on the reference geometry.
C1_ReferenceDerived ==
    Derived /\ ReferenceGeometry(inp) /\ PyInt(N) = 20

\* C2 as stated: for the reference geometry the trace length
\* 4 * ((d_out + d_in) / 2) * (N + 1) is 9840 mm.
C2_TraceLengthIs9840 ==
    (Derived /\ ReferenceGeometry(inp)) => lengthTrace = IntNum(9840)

\* C2 amended: for the reference geometry the trace length
\* 4 * ((d_out + d_in) / 2) * (N + 1) = 4 * 60 * 21 is 5040 mm.
C2_TraceLengthIs5040 ==
    (Derived /\ ReferenceGeometry(inp)) =>
        /\ lengthTrace = IntNum(5040)
        /\ lengthTrace = Mul(Mul(IntNum(4), IntNum(60)), Add(N, IntNum(1)))

\* C2 witness: a trace length was derived for the reference geometry.
C2_ReferenceTraceDerived ==
    Derived /\ ReferenceGeometry(inp) /\ IsNum(lengthTrace)
        /\ Sign(lengthTrace) > 0

\* the series handed to the first plot (field) and to the second (current)
field == plots[1].y

current == plots[2].y

\* the coupling coefficient of the output matrix, line 84
kappa == C[1][2]

\* C3 as stated: at every sample, current = -field / kappa.
C3_CurrentIsMinusFieldOverKappa ==
    pc = "done" =>
        \A j \in 1..Len(current) :
            current[j] = ArrayDiv(Neg(field[j]), kappa)

\* C3 amended: at every sample, current = field / kappa (both series carry
\* the same sign flip of the raw output), so current * kappa = field
\* whenever kappa # 0; the two series have the length and the time axis of
\* the raw output.
C3_CurrentIsFieldOverKappa ==
    pc = "done" =>
        /\ Len(current) = Len(field) /\ Len(field) = Len(systemOutput3)
        /\ plots[1].x = plots[2].x /\ Len(plots[1].x) = Len(field)
        /\ \A j \in 1..Len(current) :
              /\ current[j] = ArrayDiv(field[j], kappa)
              /\ field[j] = Neg(systemOutput3[j])
              /\ ~IsZero(kappa) =>
                    IsNum(current[j]) /\ Mul(current[j], kappa) = field[j]

\* C3 witness: both series were handed over and the field is not all zero.
C3_NonZeroFieldReported ==
    pc = "done" /\ \E j \in 1..Len(field) : ~IsZero(field[j])

\* C4 as stated: a run that ends in a failure has emitted no diagnostic
\* line and handed no series to the reporting collaborator.
C4_NoOutputBeforeFailure ==
    pc = "failed" => (printed = <<>> /\ plots = <<>>)

\* the inputs with another series-winding count, all else held fixed
WithSeries(in, m) == [in EXCEPT !.n_series = IntNum(m)]

Gauss(y) == Mul(AbsVal(y), IntNum(10000))

\* C6: for a non-empty raw output series the reported peak is
\* max |raw_output| * 10000: it is the value |y| * 10000 of some sample and
\* no sample exceeds it; it is 0 for an all-zero series, |y| * 10000 for the
\* single-sample series [y], never negative, and the same for the negated
\* series.
C6_PeakIsMaxAbsTimes10000 ==
    pc = "plot1" =>
        LET ys == systemOutput3
            m == max_magnetic_field
        IN /\ \E j \in 1..Len(ys) : m = Gauss(ys[j])
           /\ \A j \in 1..Len(ys) : Leq(Gauss(ys[j]), m)
           /\ Sign(m) >= 0
           /\ (\A j \in 1..Len(ys) : IsZero(ys[j])) => m = Zero
           /\ Len(ys) = 1 => m = Gauss(ys[1])
           /\ PeakGauss(FieldSeries(ys)) = m
           /\ printed[Len(printed)] = Line("Peak Magnetic Field", m)

\* C6 witness: a series of several samples whose strict peak is a negative
\* sample.
C6_NegativeSampleIsPeak ==
    /\ pc = "plot1" /\ Len(systemOutput3) > 1
    /\ \E j \in 1..Len(systemOutput3) :
          /\ Sign(systemOutput3[j]) < 0
          /\ max_magnetic_field = Gauss(systemOutput3[j])
          /\ \A h \in 1..Len(systemOutput3) :
                h # j => Less(Gauss(systemOutput3[h]), max_magnetic_field)

\* trace, determinant and discriminant of the characteristic polynomial
\* x^2 - Trace * x + Det of a 2 x 2 matrix
Trace(M) == Add(M[1][1], M[2][2])

Det(M) == Sub(Mul(M[1][1], M[2][2]), Mul(M[1][2], M[2][1]))

Disc(M) == Sub(Square(Trace(M)), Mul(IntNum(4), Det(M)))

\* C7: for R, L, C > 0 the state matrix is [[0, 1/C], [-1/L, -R/L]]; its
\* characteristic polynomial is x^2 + (R/L) x + 1/(L C), with both
\* coefficients positive (sum of the roots negative, product positive: both
\* roots have negative real part); the discriminant is non-negative (real
\* roots) exactly when R^2 >= 4 L / C and negative (complex pair) exactly
\* when R^2 < 4 L / C.
C7_CharacteristicPolynomial ==
    pc = "solve" =>
        LET R == R_coil
            L == L_coil
            Cap == inp.C_coil
        IN /\ A[1][1] = Zero /\ Mul(A[1][2], Cap) = IntNum(1)
           /\ Mul(A[2][1], L) = IntNum(-1) /\ Mul(A[2][2], L) = Neg(R)
           /\ Neg(Trace(A)) = Div(R, L)
           /\ Det(A) = Div(IntNum(1), Mul(L, Cap))
           /\ Sign(Trace(A)) < 0 /\ Sign(Det(A)) > 0
           /\ Sign(Disc(A)) >= 0
                 <=> Leq(Div(Mul(IntNum(4), L), Cap), Square(R))
           /\ Sign(Disc(A)) < 0
                 <=> Less(Square(R), Div(Mul(IntNum(4), L), Cap))

\* C7 witness: a model was built for an underdamped R, L, C.
C7_UnderdampedModelBuilt ==
    pc = "solve" /\ Sign(Disc(A)) < 0
        /\ Less(Square(R_coil), Div(Mul(IntNum(4), L_coil), inp.C_coil))

\* C8 as stated: for valid PhysicalInputs every term of the turn sum has a
\* strictly positive denominator 100 - 2 * (w + s) * i, so the sum never
\* divides by zero.
C8_TermDenominatorsPositive ==
    (Valid(inp) /\ pc = "sum" /\ i < LoopBound(N)) =>
        Sign(TermDenominator(inp, i)) > 0

\* the divisor of the current waveform, line 110
divisor == Kappa(a_inv_sum)

\* C9 as stated: for valid PhysicalInputs the divisor of the current
\* waveform is non-zero and the current series is defined at every sample.
C9_DivisorNonZero ==
    (Valid(inp) /\ pc = "done") =>
        /\ ~IsZero(divisor)
        /\ \A j \in 1..Len(current) : IsNum(current[j])

\* C9 amended: for valid PhysicalInputs with N >= 1 and d_out <= 100 every
\* term of the turn sum is positive, so the divisor is positive and the
\* current series is defined at every sample; with 0 < N < 1 the turn sum is
\* empty, the divisor is 0 and every current sample is nan.
C9_DivisorPositiveFromOneTurn ==
    /\ (Valid(inp) /\ pc = "sum" /\ Leq(inp.d_out, IntNum(100))
            /\ i < LoopBound(N)) =>
          Sign(TermDenominator(inp, i)) > 0
    /\ (Valid(inp) /\ pc = "done" /\ Leq(IntNum(1), N)
            /\ Leq(inp.d_out, IntNum(100))) =>
          /\ i >= 1
          /\ Sign(a_inv_sum) > 0 /\ Sign(divisor) > 0 /\ divisor = kappa
          /\ \A j \in 1..Len(current) : IsNum(current[j])
    /\ (Valid(inp) /\ pc = "done" /\ Less(N, IntNum(1))) =>
          /\ i = 0 /\ IsZero(divisor)
          /\ \A j \in 1..Len(current) : current[j] = NaN

\* C9 witness: a valid run with N >= 1 and d_out <= 100 reported a current
\* series with a non-zero sample.
C9_CurrentDefinedFromOneTurn ==
    /\ Valid(inp) /\ pc = "done" /\ Leq(IntNum(1), N)
    /\ Leq(inp.d_out, IntNum(100))
    /\ \E j \in 1..Len(current) : IsNum(current[j]) /\ ~IsZero(current[j])

\* the diagnostic lines of lines 71-79 are out
Reported == Len(printed) >= 7

turns == printed[6].value

\* C10 as stated: the reported integer turn count is floor(N) for every N,
\* and the number of terms summed is max(0, floor(N)).
C10_TurnsAreFloor ==
    Reported =>
        /\ printed[6].label = "Number of Turns (1 coil)"
        /\ turns = IntNum(Floor(N))
        /\ i = (IF Floor(N) > 0 THEN Floor(N) ELSE 0)

\* C10 amended: the reported integer turn count is N truncated toward zero
\* (the integer t of the sign of N with |t| <= |N| < |t| + 1): floor(N) for
\* N >= 0, and the ceiling of N for N < 0; the number of terms summed is
\* max(0, floor(N)).
C10_TurnsAreTruncated ==
    Reported =>
        /\ printed[6].label = "Number of Turns (1 coil)"
        /\ turns.d = 1 /\ turns.b >= 0 /\ turns.c >= 0
        /\ turns.p = 0 /\ turns.r = 0
        /\ Leq(AbsVal(turns), AbsVal(N))
        /\ Less(AbsVal(N), Add(AbsVal(turns), IntNum(1)))
        /\ ~IsZero(turns) => Sign(turns) = Sign(N)
        /\ Sign(N) >= 0 => turns = IntNum(Floor(N))
        /\ Sign(N) < 0 => turns = IntNum(-Floor(Neg(N)))
        /\ i = (IF Floor(N) > 0 THEN Floor(N) ELSE 0)

\* C10 witness: the turn count was reported for a negative fractional N,
\* and it is not floor(N).
C10_NegativeFractionalTurnsReported ==
    Reported /\ Sign(N) < 0 /\ N # IntNum(Floor(N))
        /\ turns # IntNum(Floor(N))

====
